---- MODULE Spec2Model ----
(***************************************************************************)
(* Model of the data ingestion service of gamesense                        *)
(* (src/data-ingestion/ingestion.py, class DataIngestionService).          *)
(*                                                                         *)
(* The document store (MongoDB collections games, matches, reviews) and    *)
(* the graph store (Neo4j nodes Game, Tournament, Team and COMPETES_IN     *)
(* edges) are the state.  Every handler of the service is one action; the  *)
(* provider responses, the wall clock and the availability of the two      *)
(* stores are the inputs.                                                  *)
(***************************************************************************)
EXTENDS Integers, Sequences, FiniteSets, TLC

VARIABLES
    pc,          \* position of the service process
    initial,     \* TRUE until the initial data load of run_scheduled_tasks is over
    creds,       \* self.igdb_token and self.pandascore_api_key
    clock,       \* datetime.now(), advanced by every record that is stamped
    games,       \* db.games:   _id      -> document
    matches,     \* db.matches: _id      -> document
    reviews,     \* db.reviews: reviewId -> document
    graph,       \* Neo4j: [game, tournament, team: key -> properties, edges]
    shadow,      \* the document store of the same run with a graph store that never raises
    todo,        \* ingest_steam_reviews: the games its loop has still to visit
    last,        \* history: the task that ran last and the input it was given
    callers      \* concurrent save_game callers (used by SpecConc only)

vars == <<pc, initial, creds, clock, games, matches, reviews, graph, shadow, todo, last, callers>>

----------------------------------------------------------------------------
(* Bounds of the model *)

MaxId == 2         \* provider ids are 1..MaxId
MaxBatch == 2      \* records in one fetched batch
MaxClock == 3      \* timestamps handed out in one run

----------------------------------------------------------------------------
(* Python values.  A dict key is absent, or holds None, or holds a value. *)

Absent == <<"absent">>
Null == <<"null">>
Val(x) == <<"val", x>>
IsVal(o) == o[1] = "val"
Get(o) == o[2]
\* Python truthiness of dict.get(key): a missing key and None are falsy
Truthy(o) == IsVal(o)
\* truthiness of a number: 0 is falsy as well
TruthyNum(o) == IsVal(o) /\ Get(o) # 0
\* a value that is an int where a str is expected
IntVal(n) == <<"int", n>>

Digit(d) == <<"0", "1", "2", "3", "4", "5", "6", "7", "8", "9">>[d + 1]

RECURSIVE Str(_)
\* str(n) of a non-negative int
Str(n) == IF n < 10 THEN Digit(n) ELSE Str(n \div 10) \o Digit(n % 10)

\* f with key k bound to v (an upsert on a keyed collection)
Put(f, k, v) == [x \in DOMAIN f \cup {k} |-> IF x = k THEN v ELSE f[x]]

Empty == [x \in {} |-> 0]

----------------------------------------------------------------------------
(* The two stores *)

\* new fields over old ones ($set on an existing document)
Merge(old, new) ==
    [k \in DOMAIN old \cup DOMAIN new |-> IF k \in DOMAIN new THEN new[k] ELSE old[k]]

\* collection.update_one({'_id': key}, {'$set': set, '$setOnInsert': onInsert}, upsert=True)
\* on a collection with a unique _id: one atomic step of the store
UpdateOne(coll, key, set, onInsert) ==
    IF key \in DOMAIN coll
    THEN Put(coll, key, Merge(coll[key], set))
    ELSE Put(coll, key, Merge(onInsert, set))

\* collection.update_one({'_id': key}, {'$inc': {'totalReviews': n}}): no upsert
IncTotalReviews(coll, key, n) ==
    IF key \in DOMAIN coll
    THEN Put(coll, key, [coll[key] EXCEPT !.totalReviews = @ + n])
    ELSE coll

\* mutant: CREATE instead of MERGE: an existing key gets a second node
CreateNode(nodes, key, props) ==
    IF key \in DOMAIN nodes THEN Put(nodes, key \o "'", props) ELSE Put(nodes, key, props)

\* MERGE (n {key}) SET n.props
MergeNode(nodes, key, props) == Put(nodes, key, props)

\* The state of both stores as one value
Stores == [games |-> games, matches |-> matches, reviews |-> reviews, graph |-> graph]

NoGraph == [game |-> Empty, tournament |-> Empty, team |-> Empty, edges |-> {}]

----------------------------------------------------------------------------
(* Catalog source: ingest_games / save_game *)

RECURSIVE FirstSteam(_)
\* the loop of extract_steam_id over external_games: category 1 is Steam
FirstSteam(exts) ==
    IF exts = <<>> THEN Null
    ELSE IF Head(exts).category = 1 THEN Head(exts).uid
    ELSE FirstSteam(Tail(exts))

extract_steam_id(game_data) ==
    IF IsVal(game_data.external_games) THEN FirstSteam(Get(game_data.external_games))
    ELSE Null

\* game_doc of save_game; game_data['id'] is present
game_doc(game_data, now) ==
    [_id |-> Str(Get(game_data.id)),
     title |-> IF IsVal(game_data.name) THEN Get(game_data.name) ELSE "Unknown",
     \* game_data.get('rating', 0) / 10.0 if game_data.get('rating') else None;
     \* the float x / 10.0 is kept as its number of tenths, x
     avgScore |-> IF TruthyNum(game_data.rating)
                  THEN Val([tenths |-> Get(game_data.rating)]) ELSE Null,
     steamId |-> extract_steam_id(game_data),
     totalReviews |-> 0,
     updatedAt |-> now]

\* '$setOnInsert' of save_game
game_set_on_insert(now) == [createdAt |-> now]

\* mutant: createdAt written with '$set', as save_match writes it
upsert_game_overwrite(coll, doc, now) ==
    UpdateOne(coll, doc._id, Merge(doc, [createdAt |-> now]), Empty)

\* mutant: totalReviews under '$inc' (one per save) instead of '$set'
upsert_game_inc(coll, doc, now) ==
    IF doc._id \in DOMAIN coll
    THEN Put(coll, doc._id,
             Merge(coll[doc._id], [doc EXCEPT !.totalReviews = coll[doc._id].totalReviews + 1]))
    ELSE UpdateOne(coll, doc._id, doc, game_set_on_insert(now))

\* db.games.update_one of save_game
upsert_game(coll, doc, now) == UpdateOne(coll, doc._id, doc, game_set_on_insert(now))

\* the MERGE (g:Game ...) of save_game
merge_game_node(g, doc, now) ==
    [g EXCEPT !.game = MergeNode(@, doc._id, [title |-> doc.title, createdAt |-> now])]

\* mutant: the graph projection comes first, so that its exception skips the upsert
save_game_graph_first(S, game_data, now, env) ==
    IF ~IsVal(game_data.id) THEN S
    ELSE IF ~env.neoOk THEN S
    ELSE LET doc == game_doc(game_data, now)
             S1 == [S EXCEPT !.graph = merge_game_node(@, doc, now)]
         IN  IF ~env.mongoOk THEN S1
             ELSE [S1 EXCEPT !.games = upsert_game(@, doc, now)]

\* save_game: the whole try block; any exception ends it with what was written so far
save_game(S, game_data, now, env) ==
    IF ~IsVal(game_data.id) THEN S                      \* KeyError on game_data['id']
    ELSE IF ~env.mongoOk THEN S                         \* update_one raises
    ELSE LET doc == game_doc(game_data, now)
             S1 == [S EXCEPT !.games = upsert_game(@, doc, now)]
         IN  IF ~env.neoOk THEN S1                      \* session.run raises
             ELSE [S1 EXCEPT !.graph = merge_game_node(@, doc, now)]

RECURSIVE save_games_abort(_, _, _, _)
\* mutant: save_game without its own try block: a malformed record ends the loop
save_games_abort(S, batch, now, env) ==
    IF batch = <<>> THEN S
    ELSE IF ~IsVal(Head(batch).id) THEN S
    ELSE save_games_abort(save_game(S, Head(batch), now, env), Tail(batch), now + 1, env)

RECURSIVE save_games(_, _, _, _)
\* for game_data in games: self.save_game(game_data)
save_games(S, batch, now, env) ==
    IF batch = <<>> THEN S
    ELSE save_games(save_game(S, Head(batch), now, env), Tail(batch), now + 1, env)

\* ingest_games: the request, and on a 200 the loop over the response
ingest_games(S, resp, now, env) ==
    IF resp.raised THEN S                               \* requests.post raises: except
    ELSE IF resp.status = 200 THEN save_games(S, resp.body, now, env)
    ELSE S

----------------------------------------------------------------------------
(* Match source: ingest_esports_data / save_match / sync_tournament_graph *)

\* str.lower() on one character
LowerChar(c) ==
    CASE c = "A" -> "a" [] c = "B" -> "b" [] c = "C" -> "c" [] c = "D" -> "d"
      [] c = "E" -> "e" [] c = "F" -> "f" [] c = "G" -> "g" [] c = "H" -> "h"
      [] c = "I" -> "i" [] c = "J" -> "j" [] c = "K" -> "k" [] c = "L" -> "l"
      [] c = "M" -> "m" [] c = "N" -> "n" [] c = "O" -> "o" [] c = "P" -> "p"
      [] c = "Q" -> "q" [] c = "R" -> "r" [] c = "S" -> "s" [] c = "T" -> "t"
      [] c = "U" -> "u" [] c = "V" -> "v" [] c = "W" -> "w" [] c = "X" -> "x"
      [] c = "Y" -> "y" [] c = "Z" -> "z"
      [] OTHER -> c

\* str.lower(): a string is the sequence of its characters
Lower(s) == [i \in 1..Len(s) |-> LowerChar(s[i])]

Chars_running == <<"r", "u", "n", "n", "i", "n", "g">>
Chars_finished == <<"f", "i", "n", "i", "s", "h", "e", "d">>
Chars_not_started == <<"n", "o", "t", "_", "s", "t", "a", "r", "t", "e", "d">>
Chars_canceled == <<"c", "a", "n", "c", "e", "l", "e", "d">>
Chars_postponed == <<"p", "o", "s", "t", "p", "o", "n", "e", "d">>

\* mutant: the dict lookup without status.lower()
map_status_exact(status) ==
    CASE status = Chars_running -> "LIVE"
      [] status = Chars_finished -> "FINISHED"
      [] status = Chars_not_started -> "SCHEDULED"
      [] status = Chars_canceled -> "CANCELLED"
      [] status = Chars_postponed -> "POSTPONED"
      [] OTHER -> "SCHEDULED"

\* map_status; status is a str (None has no lower(): see save_match)
map_status(status) ==
    LET s == Lower(status) IN
    CASE s = Chars_running -> "LIVE"
      [] s = Chars_finished -> "FINISHED"
      [] s = Chars_not_started -> "SCHEDULED"
      [] s = Chars_canceled -> "CANCELLED"
      [] s = Chars_postponed -> "POSTPONED"
      [] OTHER -> "SCHEDULED"

RECURSIVE ReplaceZ(_)
\* dt_string.replace('Z', '+00:00')
ReplaceZ(s) ==
    IF s = <<>> THEN <<>>
    ELSE (IF Head(s) = "Z" THEN <<"+", "0", "0", ":", "0", "0">> ELSE <<Head(s)>>)
         \o ReplaceZ(Tail(s))

\* the value of a decimal digit, -1 for any other character
DigitOf(c) ==
    CASE c = "0" -> 0 [] c = "1" -> 1 [] c = "2" -> 2 [] c = "3" -> 3 [] c = "4" -> 4
      [] c = "5" -> 5 [] c = "6" -> 6 [] c = "7" -> 7 [] c = "8" -> 8 [] c = "9" -> 9
      [] OTHER -> -1

AllDigits(s) == \A i \in 1..Len(s) : DigitOf(s[i]) >= 0
Num2(s) == DigitOf(s[1]) * 10 + DigitOf(s[2])
Num4(s) == Num2(SubSeq(s, 1, 2)) * 100 + Num2(SubSeq(s, 3, 4))

DaysIn(y, m) ==
    IF m \in {4, 6, 9, 11} THEN 30
    ELSE IF m # 2 THEN 31
    ELSE IF y % 4 = 0 /\ (y % 100 # 0 \/ y % 400 = 0) THEN 29 ELSE 28

\* YYYY-MM-DD
IsIsoDate(s) ==
    /\ Len(s) = 10
    /\ AllDigits(SubSeq(s, 1, 4)) /\ s[5] = "-"
    /\ AllDigits(SubSeq(s, 6, 7)) /\ s[8] = "-"
    /\ AllDigits(SubSeq(s, 9, 10))
    /\ Num4(SubSeq(s, 1, 4)) >= 1
    /\ Num2(SubSeq(s, 6, 7)) \in 1..12
    /\ Num2(SubSeq(s, 9, 10)) \in 1..DaysIn(Num4(SubSeq(s, 1, 4)), Num2(SubSeq(s, 6, 7)))

\* HH[:MM[:SS]]
IsIsoTime(s) ==
    /\ Len(s) \in {2, 5, 8}
    /\ AllDigits(SubSeq(s, 1, 2)) /\ Num2(SubSeq(s, 1, 2)) < 24
    /\ Len(s) >= 5 => /\ s[3] = ":"
                       /\ AllDigits(SubSeq(s, 4, 5)) /\ Num2(SubSeq(s, 4, 5)) < 60
    /\ Len(s) = 8 => /\ s[6] = ":"
                      /\ AllDigits(SubSeq(s, 7, 8)) /\ Num2(SubSeq(s, 7, 8)) < 60

\* +HH:MM or -HH:MM
IsIsoOffset(s) ==
    /\ Len(s) = 6
    /\ s[1] \in {"+", "-"}
    /\ IsIsoTime(SubSeq(s, 2, 6))

\* does datetime.fromisoformat accept s?  (date, any one separator, time, offset;
\* fractions of a second are not among the inputs)
IsIsoFormat(s) ==
    /\ Len(s) >= 10
    /\ IsIsoDate(SubSeq(s, 1, 10))
    /\ Len(s) > 10 =>
          /\ Len(s) >= 13
          /\ LET rest == SubSeq(s, 12, Len(s))
                 n == Len(rest)
             IN  \/ IsIsoTime(rest)
                 \/ /\ n > 6
                    /\ IsIsoTime(SubSeq(rest, 1, n - 6))
                    /\ IsIsoOffset(SubSeq(rest, n - 5, n))

\* an exception left the call
Raised == <<"raised">>

\* mutant: parse_datetime without its try block
parse_datetime_unguarded(dt_string) ==
    IF dt_string \in {Absent, Null} THEN Null
    ELSE IF dt_string[1] = "int" THEN (IF dt_string[2] = 0 THEN Null ELSE Raised)
    ELSE IF Get(dt_string) = <<>> THEN Null
    ELSE IF IsIsoFormat(ReplaceZ(Get(dt_string))) THEN Val(ReplaceZ(Get(dt_string)))
    ELSE Raised

\* parse_datetime(match_data.get(key)); the instant is kept as its normalised text
parse_datetime(dt_string) ==
    IF dt_string \in {Absent, Null} THEN Null          \* if not dt_string: return None
    ELSE IF dt_string[1] = "int"
         THEN Null                                      \* 0 is falsy; int.replace raises: except
    ELSE IF Get(dt_string) = <<>> THEN Null
    ELSE IF IsIsoFormat(ReplaceZ(Get(dt_string))) THEN Val(ReplaceZ(Get(dt_string)))
    ELSE Null                                           \* fromisoformat raises: except

\* opponents[i]['opponent'] if len(opponents) > i else {}
Opponents(match_data) ==
    IF IsVal(match_data.opponents) THEN Get(match_data.opponents) ELSE <<>>

NoTeam == [id |-> Absent, name |-> Absent]

TeamAt(match_data, i) ==
    IF Len(Opponents(match_data)) >= i THEN Opponents(match_data)[i] ELSE NoTeam

\* str(team.get('id', ''))
TeamIdStr(team) ==
    IF IsVal(team.id) THEN Str(Get(team.id))
    ELSE IF team.id = Null THEN "None"
    ELSE ""

\* team.get('name', default)
TeamName(team, default) == IF IsVal(team.name) THEN Get(team.name) ELSE default

\* match_data.get('status', 'not_started')
StatusArg(match_data) ==
    IF match_data.status = Absent THEN Val(Chars_not_started) ELSE match_data.status

\* does building match_doc raise?  (KeyError on 'id', AttributeError on None.lower())
match_doc_raises(match_data) ==
    \/ ~IsVal(match_data.id)
    \/ ~IsVal(StatusArg(match_data))
    \* an exception leaving parse_datetime would leave the try block as well
    \/ parse_datetime(match_data.scheduled_at) = Raised
    \/ parse_datetime(match_data.begin_at) = Raised

\* match_doc of save_match
match_doc(match_data, now) ==
    [_id |-> Str(Get(match_data.id)),
     tournamentId |-> IF IsVal(match_data.tournament)
                      THEN Val(Str(Get(match_data.tournament).id)) ELSE Null,
     teamAId |-> TeamIdStr(TeamAt(match_data, 1)),
     teamAName |-> TeamName(TeamAt(match_data, 1), "TBD"),
     teamBId |-> TeamIdStr(TeamAt(match_data, 2)),
     teamBName |-> TeamName(TeamAt(match_data, 2), "TBD"),
     status |-> map_status(Get(StatusArg(match_data))),
     winnerId |-> IF Truthy(match_data.winner_id)
                  THEN Val(Str(Get(match_data.winner_id))) ELSE Null,
     gameTitle |-> IF IsVal(match_data.videogame) THEN Get(match_data.videogame) ELSE "Unknown",
     scheduledAt |-> parse_datetime(match_data.scheduled_at),
     startedAt |-> parse_datetime(match_data.begin_at),
     createdAt |-> now,
     updatedAt |-> now]

\* db.matches.update_one({'_id': ...}, {'$set': match_doc}, upsert=True)
upsert_match(coll, doc) == UpdateOne(coll, doc._id, doc, Empty)

RECURSIVE merge_teams_tbd(_, _, _, _)
\* mutant: the loop without "if not team.get('id'): continue"
merge_teams_tbd(g, opps, tourId, gameTitle) ==
    IF opps = <<>> THEN g
    ELSE LET team == Head(opps)
             tid == TeamIdStr(team)
             g1 == [g EXCEPT !.team = MergeNode(@, tid,
                       [name |-> TeamName(team, "Unknown"), gameTitle |-> gameTitle])]
             g2 == [g1 EXCEPT !.edges = @ \cup {<<tid, tourId>>}]
         IN  merge_teams_tbd(g2, Tail(opps), tourId, gameTitle)

RECURSIVE merge_teams(_, _, _, _)
\* the loop over opponents of sync_tournament_graph
merge_teams(g, opps, tourId, gameTitle) ==
    IF opps = <<>> THEN g
    ELSE LET team == Head(opps) IN
         IF ~Truthy(team.id) THEN merge_teams(g, Tail(opps), tourId, gameTitle)
         ELSE LET tid == Str(Get(team.id))
                  g1 == [g EXCEPT !.team = MergeNode(@, tid,
                            [name |-> TeamName(team, "Unknown"), gameTitle |-> gameTitle])]
                  \* MATCH (tour:Tournament ...) MERGE (t)-[:COMPETES_IN]->(tour)
                  g2 == IF tourId \in DOMAIN g1.tournament
                        THEN [g1 EXCEPT !.edges = @ \cup {<<tid, tourId>>}] ELSE g1
              IN  merge_teams(g2, Tail(opps), tourId, gameTitle)

\* sync_tournament_graph: its own try block; 'tournament' is in match_data
sync_tournament_graph(g, match_data, env) ==
    IF ~env.neoOk THEN g                                \* session.run raises
    ELSE IF ~IsVal(match_data.videogame) THEN g         \* KeyError on match_data['videogame']
    ELSE LET tourney == Get(match_data.tournament)
             tourId == Str(tourney.id)
             gameTitle == Get(match_data.videogame)
             g1 == [g EXCEPT !.tournament = MergeNode(@, tourId,
                       [name |-> IF IsVal(tourney.name) THEN Get(tourney.name) ELSE "Unknown",
                        gameTitle |-> gameTitle])]
         IN  merge_teams(g1, Opponents(match_data), tourId, gameTitle)

\* save_match: the whole try block
save_match(S, match_data, now, env) ==
    IF match_doc_raises(match_data) THEN S
    ELSE IF ~env.mongoOk THEN S                         \* update_one raises
    ELSE LET S1 == [S EXCEPT !.matches = upsert_match(@, match_doc(match_data, now))]
         IN  IF IsVal(match_data.tournament)
             THEN [S1 EXCEPT !.graph = sync_tournament_graph(@, match_data, env)]
             ELSE S1

RECURSIVE save_matches(_, _, _, _)
\* for match_data in matches: self.save_match(match_data)
save_matches(S, batch, now, env) ==
    IF batch = <<>> THEN S
    ELSE save_matches(save_match(S, Head(batch), now, env), Tail(batch), now + 1, env)

\* mutant: the loop over response.json() without the test of status_code
fetch_and_save_matches_any_status(S, resp, now, env) ==
    IF resp.raised THEN S
    ELSE save_matches(S, resp.body, now, env)

\* _fetch_and_save_matches for one endpoint
fetch_and_save_matches(S, resp, now, env) ==
    IF resp.raised THEN S
    ELSE IF resp.status = 200 THEN save_matches(S, resp.body, now, env)
    ELSE S

\* records of a response that reach the save loop
Saved(resp) == IF ~resp.raised /\ resp.status = 200 THEN resp.body ELSE <<>>

----------------------------------------------------------------------------
(* Review source: ingest_steam_reviews *)

\* review_doc; rev['timestamp_created'] is present
review_doc(rev, game_id, now) ==
    [reviewId |-> IF IsVal(rev.recommendationid) THEN Str(Get(rev.recommendationid)) ELSE "None",
     gameId |-> game_id,
     rating |-> IF rev.voted_up THEN 10 ELSE 0,
     timestamp |-> Get(rev.timestamp_created),
     source |-> "STEAM",
     createdAt |-> now]

\* mutant: insert_one(review_doc) instead of the upsert
insert_review(coll, doc) == coll \cup {doc}

\* db.reviews.update_one({'reviewId': ...}, {'$set': review_doc}, upsert=True):
\* the collection has no key but MongoDB's own _id, so it is a set of documents
upsert_review(coll, doc) ==
    IF \E d \in coll : d.reviewId = doc.reviewId
    THEN LET d == CHOOSE x \in coll : x.reviewId = doc.reviewId
         IN  (coll \ {d}) \cup {Merge(d, doc)}
    ELSE coll \cup {doc}

RECURSIVE save_reviews(_, _, _, _)
\* for rev in reviews: ...; the result says whether the loop ran to its end
save_reviews(coll, revs, game_id, now) ==
    IF revs = <<>> THEN [coll |-> coll, ok |-> TRUE]
    ELSE IF ~IsVal(Head(revs).timestamp_created)
         THEN [coll |-> coll, ok |-> FALSE]             \* datetime.fromtimestamp(None) raises
    ELSE save_reviews(upsert_review(coll, review_doc(Head(revs), game_id, now)),
                      Tail(revs), game_id, now + 1)

\* the body of the loop over games: one try block per game
reviews_of_game(S, game_id, resp, now, env) ==
    IF resp.raised THEN S
    ELSE IF resp.status # 200 THEN S
    ELSE IF resp.body = <<>> THEN S                     \* if not reviews: continue
    ELSE IF ~env.mongoOk /\ IsVal(Head(resp.body).timestamp_created)
         THEN S                                         \* the first update_one raises
    ELSE LET r == save_reviews(S.reviews, resp.body, game_id, now)
             S1 == [S EXCEPT !.reviews = r.coll]
         IN  IF ~r.ok THEN S1
             ELSE [S1 EXCEPT !.games = IncTotalReviews(@, game_id, Len(resp.body))]

----------------------------------------------------------------------------
(* Python floats.  Every float analyze_sentiment computes is a multiple of   *)
(* 2^-55 below 8, kept as its sign and the bits of its magnitude in units of *)
(* 2^-55, lowest bit first; an operation rounds its exact result to the 53   *)
(* significant bits of a double, ties to even.                               *)

FloatBits == 58

RECURSIVE AddFrom(_, _, _, _)
\* the bits i.. of a + b, c being the carry into bit i
AddFrom(a, b, i, c) ==
    IF i > FloatBits THEN <<>>
    ELSE <<(a[i] + b[i] + c) % 2>> \o AddFrom(a, b, i + 1, (a[i] + b[i] + c) \div 2)

BitsAdd(a, b) == AddFrom(a, b, 1, 0)

RECURSIVE SubFrom(_, _, _, _)
\* the bits i.. of a - b, c being the borrow from bit i
SubFrom(a, b, i, c) ==
    IF i > FloatBits THEN <<>>
    ELSE <<(a[i] - b[i] - c + 2) % 2>>
         \o SubFrom(a, b, i + 1, IF a[i] - b[i] - c < 0 THEN 1 ELSE 0)

\* a - b for a >= b
BitsSub(a, b) == SubFrom(a, b, 1, 0)

BitsLess(a, b) ==
    \E i \in 1..FloatBits : a[i] < b[i] /\ \A j \in (i + 1)..FloatBits : a[j] = b[j]

\* a function on 1..FloatBits as the tuple of its values
Bits(f) == SubSeq(f, 1, FloatBits)

BitsZero == Bits([i \in 1..FloatBits |-> 0])
BitsUnit(k) == Bits([i \in 1..FloatBits |-> IF i = k THEN 1 ELSE 0])

\* the position of the highest bit set, 0 for zero
TopBit(a) ==
    IF a = BitsZero THEN 0
    ELSE CHOOSE i \in 1..FloatBits : a[i] = 1 /\ \A j \in (i + 1)..FloatBits : a[j] = 0

\* the exact magnitude a rounded to 53 significant bits, ties to even
RoundBits(a) ==
    LET k == TopBit(a) - 53 IN
    IF k <= 0 THEN a
    ELSE LET kept == Bits([i \in 1..FloatBits |-> IF i <= k THEN 0 ELSE a[i]])
             above == a[k] = 1 /\ ((\E j \in 1..(k - 1) : a[j] = 1) \/ a[k + 1] = 1)
         IN  IF above THEN BitsAdd(kept, BitsUnit(k + 1)) ELSE kept

Float(neg, mag) == [neg |-> neg, mag |-> mag]

\* x + y
FloatAdd(x, y) ==
    IF x.neg = y.neg THEN Float(x.neg, RoundBits(BitsAdd(x.mag, y.mag)))
    ELSE IF x.mag = y.mag THEN Float(FALSE, BitsZero)
    ELSE IF BitsLess(x.mag, y.mag) THEN Float(y.neg, RoundBits(BitsSub(y.mag, x.mag)))
    ELSE Float(x.neg, RoundBits(BitsSub(x.mag, y.mag)))

\* x - y
FloatSub(x, y) == FloatAdd(x, Float(~y.neg, y.mag))

\* x < y
FloatLess(x, y) ==
    IF x.mag = BitsZero /\ y.mag = BitsZero THEN FALSE
    ELSE IF x.neg # y.neg THEN x.neg
    ELSE IF x.neg THEN BitsLess(y.mag, x.mag) ELSE BitsLess(x.mag, y.mag)

\* min(x, y) and max(x, y) of Python: x unless y is smaller / larger
FloatMin(x, y) == IF FloatLess(y, x) THEN y ELSE x
FloatMax(x, y) == IF FloatLess(x, y) THEN y ELSE x

\* the literals 0 (an int, which adds like 0.0), 0.2 = 0x1999999999999A * 2^-55,
\* 1.0 and -1.0
Float_0 == Float(FALSE, BitsZero)
Float_0_2 == Float(FALSE, <<0, 1, 0, 1, 1, 0, 0, 1, 1, 0, 0, 1, 1, 0, 0, 1, 1, 0, 0, 1, 1, 0, 0, 1, 1, 0, 0, 1, 1, 0, 0, 1, 1, 0, 0, 1, 1, 0, 0, 1, 1, 0, 0, 1, 1, 0, 0, 1, 1, 0, 0, 1, 1, 0, 0, 0, 0, 0>>)
Float_1_0 == Float(FALSE, BitsUnit(56))
Float_minus_1_0 == Float(TRUE, BitsUnit(56))

(* analyze_sentiment *)

\* the keyword lists
positive ==
    <<<<"g", "o", "o", "d">>,
      <<"g", "r", "e", "a", "t">>,
      <<"a", "m", "a", "z", "i", "n", "g">>,
      <<"l", "o", "v", "e">>,
      <<"b", "e", "s", "t">>,
      <<"f", "u", "n">>,
      <<"e", "x", "c", "e", "l", "l", "e", "n", "t">>,
      <<"m", "a", "s", "t", "e", "r", "p", "i", "e", "c", "e">>>>
negative ==
    <<<<"b", "a", "d">>,
      <<"w", "o", "r", "s", "t">>,
      <<"b", "o", "r", "i", "n", "g">>,
      <<"h", "a", "t", "e">>,
      <<"t", "r", "a", "s", "h">>,
      <<"b", "r", "o", "k", "e", "n">>,
      <<"b", "u", "g", "g", "y">>,
      <<"a", "w", "f", "u", "l">>>>

\* w in text: w is a substring of text
Contains(w, text) == \E i \in 0..(Len(text) - Len(w)) : SubSeq(text, i + 1, i + Len(w)) = w

RECURSIVE add_matches(_, _, _)
\* for w in positive: if w in text_lower: score += 0.2
add_matches(score, words, text_lower) ==
    IF words = <<>> THEN score
    ELSE add_matches(IF Contains(Head(words), text_lower)
                     THEN FloatAdd(score, Float_0_2) ELSE score,
                     Tail(words), text_lower)

RECURSIVE subtract_matches(_, _, _)
\* for w in negative: if w in text_lower: score -= 0.2
subtract_matches(score, words, text_lower) ==
    IF words = <<>> THEN score
    ELSE subtract_matches(IF Contains(Head(words), text_lower)
                          THEN FloatSub(score, Float_0_2) ELSE score,
                          Tail(words), text_lower)

analyze_sentiment(text) ==
    LET text_lower == Lower(text)
        score == subtract_matches(add_matches(Float_0, positive, text_lower),
                                  negative, text_lower)
    IN  FloatMax(FloatMin(score, Float_1_0), Float_minus_1_0)

\* db.games.find({"steamId": {"$exists": True, "$ne": None}}), in insertion order
RECURSIVE InOrder(_, _)
InOrder(coll, ids) ==
    IF ids = {} THEN <<>>
    ELSE LET first == CHOOSE i \in ids : \A j \in ids : coll[i].createdAt <= coll[j].createdAt
         IN  <<first>> \o InOrder(coll, ids \ {first})

games_with_steam_id(coll) == InOrder(coll, {i \in DOMAIN coll : coll[i].steamId # Null})

----------------------------------------------------------------------------
(* Inputs: what the providers answer and whether the stores answer *)

\* sequences over S of length 0..n
RECURSIVE SeqsUpTo(_, _)
SeqsUpTo(S, n) ==
    IF n = 0 THEN {<<>>}
    ELSE LET shorter == SeqsUpTo(S, n - 1)
         IN  shorter \cup {Append(b, x) : b \in {c \in shorter : Len(c) = n - 1}, x \in S}

Ids == 1..MaxId
OptIds == {Absent} \cup {Val(i) : i \in Ids}

SteamExt == <<[category |-> 5, uid |-> Val("gog-7")], [category |-> 1, uid |-> Val("730")]>>

\* raw IGDB records
GameRecords ==
    [id : OptIds, name : {Val("Foo"), Absent}, external_games : {Absent, Val(SteamExt)},
     rating : {Val(85)}]

TeamA == [id |-> Val(1), name |-> Val("Alpha")]
TeamB == [id |-> Val(2), name |-> Val("Bravo")]
Major == [id |-> 1, name |-> Val("Major")]
Chars_Finished == <<"F", "i", "n", "i", "s", "h", "e", "d">>

\* raw PandaScore records
MatchRecords ==
    [id : OptIds, tournament : {Absent, Val(Major)}, opponents : {Val(<<TeamA, TeamB>>)},
     status : {Val(Chars_Finished)}, winner_id : {Val(1)}, videogame : {Val("CS2")},
     scheduled_at : {Absent}, begin_at : {Absent}]

\* raw Steam reviews
ReviewRecords ==
    [recommendationid : {Val(i) : i \in Ids}, timestamp_created : {Val(1), Absent},
     voted_up : {TRUE}]

\* a response: the request raised, or answered with a status and a body
Failed == {[raised |-> TRUE, status |-> 0, body |-> <<>>],
           [raised |-> FALSE, status |-> 500, body |-> <<>>]}
Ok(body) == [raised |-> FALSE, status |-> 200, body |-> body]
Responses(Records) == Failed \cup {Ok(b) : b \in SeqsUpTo(Records, MaxBatch)}

\* whether each store answers during one task
Envs == [mongoOk : BOOLEAN, neoOk : BOOLEAN]
GraphUp(env) == [env EXCEPT !.neoOk = TRUE]

----------------------------------------------------------------------------
(* The service process: __init__, then run_scheduled_tasks *)

Init ==
    /\ pc = "new"
    /\ initial = TRUE
    /\ creds = [igdb_token |-> Null, pandascore_api_key |-> Null]
    /\ clock = 0
    /\ games = Empty
    /\ matches = Empty
    /\ reviews = {}
    /\ graph = NoGraph
    /\ shadow = [games |-> Empty, matches |-> Empty]
    /\ todo = <<>>
    /\ last = [task |-> "none"]
    /\ callers = Empty

\* the first position of each task
Entry(t) ==
    CASE t = "ingest_games" -> "ingest_games"
      [] t = "ingest_esports_data" -> "/matches/running"
      [] t = "ingest_steam_reviews" -> "find_games"

\* task t may start: it is the next one of the initial load, or the scheduler loop
\* is waiting (schedule.run_pending then runs whichever job is due)
Due(t) == pc = Entry(t) \/ pc = "run_pending"

\* where the process is after task t returned
After(t) ==
    IF ~initial THEN "run_pending"
    ELSE CASE t = "ingest_games" -> Entry("ingest_esports_data")
           [] t = "ingest_esports_data" -> Entry("ingest_steam_reviews")
           [] t = "ingest_steam_reviews" -> "run_pending"

\* the initial load ends when its last task returns
InitialAfter(t) == initial /\ t # "ingest_steam_reviews"

\* the document store of the run in which the graph store never raises
ShadowStores == [games |-> shadow.games, matches |-> shadow.matches,
                 reviews |-> reviews, graph |-> graph]
DocsOf(S) == [games |-> S.games, matches |-> S.matches]

SetStores(S) ==
    /\ games' = S.games
    /\ matches' = S.matches
    /\ reviews' = S.reviews
    /\ graph' = S.graph

\* __init__: the store clients, the credentials, authenticate_igdb
Construct(connected, key, auth) ==
    /\ pc = "new"
    /\ pc' = IF ~connected THEN "abort_store"           \* MongoClient / GraphDatabase.driver raises
             ELSE IF auth.raised THEN "abort_auth"      \* requests.post raises out of __init__
             ELSE Entry("ingest_games")
    /\ creds' = [igdb_token |-> IF connected /\ ~auth.raised /\ auth.status = 200
                                THEN Val("token") ELSE Null,
                 pandascore_api_key |-> IF connected THEN key ELSE Null]
    /\ UNCHANGED <<initial, clock, games, matches, reviews, graph, shadow, todo, callers>>

\* self.ingest_games(limit)
IngestGames(resp, env) ==
    /\ Due("ingest_games")
    \* IGDB answers 200 only to a request that carries a token
    /\ creds.igdb_token = Null => Saved(resp) = <<>> /\ (resp.raised \/ resp.status # 200)
    /\ clock + Len(Saved(resp)) <= MaxClock
    /\ SetStores(ingest_games(Stores, resp, clock, env))
    /\ shadow' = DocsOf(ingest_games(ShadowStores, resp, clock, GraphUp(env)))
    /\ clock' = clock + Len(Saved(resp))
    /\ pc' = After("ingest_games")
    /\ initial' = InitialAfter("ingest_games")
    /\ UNCHANGED <<creds, todo, callers>>

Endpoints == <<"/matches/running", "/matches/upcoming", "/matches/past">>

\* ingest_esports_data: one call of _fetch_and_save_matches; the three follow each other
FetchAndSaveMatches(resp, env) ==
    /\ \/ Due("ingest_esports_data")
       \/ pc \in {Endpoints[2], Endpoints[3]}
    \* PandaScore answers 200 only to a request that carries a key
    /\ creds.pandascore_api_key = Null => Saved(resp) = <<>> /\ (resp.raised \/ resp.status # 200)
    /\ clock + Len(Saved(resp)) <= MaxClock
    /\ SetStores(fetch_and_save_matches(Stores, resp, clock, env))
    /\ shadow' = DocsOf(fetch_and_save_matches(ShadowStores, resp, clock, GraphUp(env)))
    /\ clock' = clock + Len(Saved(resp))
    /\ pc' = IF pc = Endpoints[2] THEN Endpoints[3]
             ELSE IF pc = Endpoints[3] THEN After("ingest_esports_data")
             ELSE Endpoints[2]
    /\ initial' = IF pc = Endpoints[3] THEN InitialAfter("ingest_esports_data") ELSE initial
    /\ UNCHANGED <<creds, todo, callers>>

\* ingest_steam_reviews up to its loop: find() is outside every try block
FindSteamGames(env) ==
    /\ Due("ingest_steam_reviews")
    /\ IF ~env.mongoOk
       THEN /\ pc' = "crashed"                          \* the exception leaves run_scheduled_tasks
            /\ UNCHANGED <<initial, todo>>
       ELSE /\ todo' = games_with_steam_id(games)
            /\ pc' = IF todo' = <<>> THEN After("ingest_steam_reviews") ELSE "reviews_loop"
            /\ initial' = IF todo' = <<>> THEN InitialAfter("ingest_steam_reviews") ELSE initial
    /\ UNCHANGED <<creds, clock, games, matches, reviews, graph, shadow, callers>>

\* ingest_steam_reviews: one pass of its loop over the games found
ReviewsOfGame(resp, env) ==
    /\ pc = "reviews_loop"
    /\ clock + Len(Saved(resp)) <= MaxClock
    /\ SetStores(reviews_of_game(Stores, Head(todo), resp, clock, env))
    \* the loop makes no graph call: the other run does what this one does
    /\ shadow' = IF shadow = DocsOf(Stores)
                 THEN DocsOf(reviews_of_game(Stores, Head(todo), resp, clock, env))
                 ELSE shadow
    /\ clock' = clock + Len(Saved(resp))
    /\ todo' = Tail(todo)
    /\ pc' = IF todo' = <<>> THEN After("ingest_steam_reviews") ELSE "reviews_loop"
    /\ initial' = IF todo' = <<>> THEN InitialAfter("ingest_steam_reviews") ELSE initial
    /\ UNCHANGED <<creds, callers>>

----------------------------------------------------------------------------
(* Specifications.  A specification gives every action its set of inputs. *)

AuthResponses == Failed \cup {Ok(<<>>)}
Keys == {Null, Val("key")}

SmallGameRecords == {g \in GameRecords : g.name = Val("Foo")}
SmallReviewRecords == {r \in ReviewRecords : r.timestamp_created # Absent}

GameResponses == Responses(SmallGameRecords)
MatchResponses == Responses(MatchRecords)
ReviewResponses == Responses(SmallReviewRecords)

\* history: the handler that ran last and the records its save loop wrote from
Written(resp, env) == IF env.mongoOk THEN Saved(resp) ELSE <<>>

Ran(track, task, game, resp, env) ==
    last' = IF track /\ Written(resp, env) # <<>>
            THEN [task |-> task, game |-> game, batch |-> Written(resp, env),
                  \* the handler before this one was the same, with the same records
                  repeat |-> /\ last.task = task
                             /\ last.game = game
                             /\ last.batch = Written(resp, env)]
            ELSE [task |-> "none"]

\* what __init__ may meet: <<stores connected, PandaScore key, IGDB's answer>>
Boots == BOOLEAN \X Keys \X AuthResponses
GoodBoots == BOOLEAN \X {Val("key")} \X {Ok(<<>>)}

\* one step of the service; B, GR, MR, RR are the answers of the environment
Step(B, GR, MR, RR, track) ==
    \/ \E b \in B : Construct(b[1], b[2], b[3]) /\ UNCHANGED last
    \/ \E r \in GR, e \in Envs : IngestGames(r, e) /\ Ran(track, "ingest_games", "", r, e)
    \/ \E r \in MR, e \in Envs :
          FetchAndSaveMatches(r, e) /\ Ran(track, "fetch_and_save_matches", "", r, e)
    \/ \E e \in Envs : FindSteamGames(e) /\ UNCHANGED last
    \/ \E r \in RR, e \in Envs :
          ReviewsOfGame(r, e) /\ Ran(track, "reviews_of_game", Head(todo), r, e)

Next == Step(Boots, GameResponses, MatchResponses, ReviewResponses, FALSE)

\* the service with every source live
Spec == Init /\ [][Next]_vars

\* identified games, with and without a Steam id
CatalogGameRecords == {g \in SmallGameRecords : IsVal(g.id)}

NextCatalog == Step(GoodBoots, Responses(CatalogGameRecords), Failed, ReviewResponses, TRUE)

\* the catalog and review sources live, the match source down; with history
SpecCatalog == Init /\ [][NextCatalog]_vars

\* games sold on Steam, matches of a tournament; each with or without its id
BatchGameRecords == {g \in SmallGameRecords : g.external_games # Absent}
BatchMatchRecords == {m \in MatchRecords : m.tournament # Absent}

NextBatch ==
    Step(GoodBoots, Responses(BatchGameRecords), Responses(BatchMatchRecords), Failed, TRUE)

\* the catalog and match sources live, the review source down; with history
SpecBatch == Init /\ [][NextBatch]_vars

\* identified games sold on Steam
SteamGameRecords == {g \in CatalogGameRecords : g.external_games # Absent}

NextReviews ==
    Step(GoodBoots, Responses(SteamGameRecords), Failed, Responses(ReviewRecords), TRUE)

\* the catalog and review sources live, reviews with or without their timestamp
SpecReviews == Init /\ [][NextReviews]_vars

----------------------------------------------------------------------------
(* Specifications of the catalog and match sources that keep, as history,    *)
(* the answer the last handler got and whether the stores answered it.       *)

Saw(task, resp, env) ==
    last' = [task |-> task, resp |-> resp, env |-> env,
             \* the handler before this one was the same, with the same answer and stores
             repeat |-> /\ last.task = task
                        /\ last.resp = resp
                        /\ last.env = env]

\* one step of the service.  No game of GR has a Steam id, so that the loop of
\* ingest_steam_reviews has no game to visit.
Watch(GR, MR, E) ==
    \/ \E b \in GoodBoots : Construct(b[1], b[2], b[3]) /\ UNCHANGED last
    \/ \E r \in GR, e \in E : IngestGames(r, e) /\ Saw("ingest_games", r, e)
    \/ \E r \in MR, e \in E :
          FetchAndSaveMatches(r, e) /\ Saw("fetch_and_save_matches", r, e)
    \/ \E e \in E : FindSteamGames(e) /\ UNCHANGED last

\* both stores answer
StoresUp == {[mongoOk |-> TRUE, neoOk |-> TRUE]}

\* a response with one record
One(Records) == Failed \cup {Ok(<<r>>) : r \in Records}

\* a complete PandaScore record
BaseMatch ==
    [id |-> Val(1), tournament |-> Val(Major), opponents |-> Val(<<TeamA, TeamB>>),
     status |-> Val(Chars_Finished), winner_id |-> Val(1), videogame |-> Val("CS2"),
     scheduled_at |-> Absent, begin_at |-> Absent]

\* matches with no, one or two opponents, without winner or won by team 1 or 2
WinnerMatchRecords ==
    {[BaseMatch EXCEPT !.id = Val(i), !.opponents = Val(o), !.winner_id = w] :
        i \in Ids, o \in {<<>>, <<TeamA>>, <<TeamA, TeamB>>}, w \in {Null, Val(1), Val(2)}}

\* scheduled_at / begin_at: "2024-01-15T10:00:00Z", "2024-01-15", and malformed ones:
\* "not-a-date", "2024-13-01T10:00:00Z", "15/01/2024", "", None, 5, a missing key
IsoInstant == Val(<<"2", "0", "2", "4", "-", "0", "1", "-", "1", "5", "T", "1", "0", ":", "0", "0", ":", "0", "0", "Z">>)
IsoDate == Val(<<"2", "0", "2", "4", "-", "0", "1", "-", "1", "5">>)
MalformedInstants ==
    {Val(<<"n", "o", "t", "-", "a", "-", "d", "a", "t", "e">>),
     Val(<<"2", "0", "2", "4", "-", "1", "3", "-", "0", "1", "T", "1", "0", ":", "0", "0", ":", "0", "0", "Z">>),
     Val(<<"1", "5", "/", "0", "1", "/", "2", "0", "2", "4">>),
     Val(<<>>), Null, IntVal(5), Absent}

Chars_paused == <<"p", "a", "u", "s", "e", "d">>

\* matches that differ from a complete one in status or in their two instants
FieldMatchRecords ==
    {[BaseMatch EXCEPT !.status = st] : st \in {Absent, Null, IntVal(3), Val(Chars_paused)}}
    \cup {[BaseMatch EXCEPT !.scheduled_at = t, !.begin_at = t] :
              t \in MalformedInstants \cup {IsoInstant}}
    \cup {[BaseMatch EXCEPT !.scheduled_at = IsoDate, !.begin_at = t] : t \in MalformedInstants}

NextFields == Watch(Failed, One(FieldMatchRecords), StoresUp)

\* the match source live with matches of any status and instants
SpecFields == Init /\ [][NextFields]_vars

\* provider ratings: missing, null, 0, 85, 100
Ratings == {Absent, Null, Val(0), Val(85), Val(100)}

\* identified games with any rating
RatedGameRecords ==
    [id : {Val(i) : i \in Ids}, name : {Val("Foo")}, external_games : {Absent}, rating : Ratings]

NextScore == Watch(One(RatedGameRecords), Failed, StoresUp)

\* the catalog source live with games of any rating
SpecScore == Init /\ [][NextScore]_vars

\* tournament i
Tournament(i) == [id |-> i, name |-> Val("Major")]

\* opponents of a match: none, two teams, one team and one still to be determined
OpponentLists == {<<>>, <<TeamA, TeamB>>, <<TeamB, NoTeam>>}

\* match i of tournament i; match 1 with any of these opponents, without
\* tournament, without videogame
GraphMatchRecords ==
    {[BaseMatch EXCEPT !.id = Val(i), !.tournament = Val(Tournament(i))] : i \in Ids}
    \cup {[BaseMatch EXCEPT !.opponents = Val(o)] : o \in OpponentLists}
    \cup {[BaseMatch EXCEPT !.tournament = Absent], [BaseMatch EXCEPT !.videogame = Absent]}

\* at most one of the two stores fails during a call
OneStoreDown == {e \in Envs : e.mongoOk \/ e.neoOk}


\* identified games without a Steam id
GraphGameRecords == {g \in CatalogGameRecords : g.external_games = Absent}

\* the responses that carry no record or one
Answers(Records) == {Ok(b) : b \in SeqsUpTo(Records, 1)}

\* as every step is kept in the history, one timestamp less is handed out
NextGraph ==
    /\ Watch(Answers(GraphGameRecords), Answers(GraphMatchRecords), OneStoreDown)
    /\ clock' < MaxClock

\* the catalog and match sources live, either store failing at times
SpecGraph == Init /\ [][NextGraph]_vars

NextWinner == Watch(Failed, One(WinnerMatchRecords), StoresUp)

\* the match source live with matches of any number of opponents
SpecWinner == Init /\ [][NextWinner]_vars

----------------------------------------------------------------------------
(* The requests of one task invocation.  The history holds, besides the last *)
(* answer, the requests made so far by the invocation that is running or     *)
(* ran last.                                                                  *)

\* the endpoint the next _fetch_and_save_matches asks
Endpoint == IF pc \in {Endpoints[2], Endpoints[3]} THEN pc ELSE Endpoints[1]

IsFailure(resp) == resp.raised \/ resp.status # 200

Asked(task, endpoint, resp, env) ==
    last' = [task |-> task, resp |-> resp, env |-> env,
             requests |->
                (IF task = "fetch_and_save_matches" /\ endpoint # Endpoints[1]
                 THEN last.requests ELSE <<>>)
                \o <<[endpoint |-> endpoint, failed |-> IsFailure(resp)]>>]

\* a non-2xx answer; its body is never read
Rejected(Records) == {[raised |-> FALSE, status |-> 500, body |-> <<r>>] : r \in Records}

FetchGameResponses == One(GraphGameRecords) \cup Rejected(GraphGameRecords)
FetchMatchRecords == {[BaseMatch EXCEPT !.id = Val(i)] : i \in Ids}
FetchMatchResponses == One(FetchMatchRecords) \cup Rejected(FetchMatchRecords)

NextFetch ==
    \/ \E b \in GoodBoots : Construct(b[1], b[2], b[3]) /\ UNCHANGED last
    \/ \E r \in FetchGameResponses, e \in StoresUp :
          IngestGames(r, e) /\ Asked("ingest_games", "/v4/games", r, e)
    \/ \E r \in FetchMatchResponses, e \in StoresUp :
          FetchAndSaveMatches(r, e) /\ Asked("fetch_and_save_matches", Endpoint, r, e)
    \/ \E e \in StoresUp : FindSteamGames(e) /\ UNCHANGED last

\* the catalog and match sources answering, failing or rejecting; the stores up
SpecFetch == Init /\ [][NextFetch]_vars

----------------------------------------------------------------------------
(* Two concurrent callers of save_game on the constructed service.  The      *)
(* steps of one call are those of the code: build game_doc, update_one (one  *)
(* atomic step of the store), session.run.                                   *)

Callers == {"a", "b"}

Idle == [at |-> "idle"]

InitConc ==
    /\ pc = "save_game"
    /\ initial = FALSE
    /\ creds = [igdb_token |-> Val("token"), pandascore_api_key |-> Val("key")]
    /\ clock = 0
    /\ games = Empty
    /\ matches = Empty
    /\ reviews = {}
    /\ graph = NoGraph
    /\ shadow = [games |-> Empty, matches |-> Empty]
    /\ todo = <<>>
    /\ last = [task |-> "none"]
    /\ callers = [c \in Callers |-> Idle]

\* save_game up to update_one: game_doc is built, or KeyError ends the call
BuildGameDoc(c, game_data) ==
    /\ callers[c].at = "idle"
    /\ callers' = [callers EXCEPT ![c] =
          IF IsVal(game_data.id)
          THEN [at |-> "update_one", doc |-> game_doc(game_data, clock)]
          ELSE Idle]
    /\ UNCHANGED <<pc, initial, creds, clock, games, matches, reviews, graph, shadow, todo, last>>

\* db.games.update_one(...): atomic in the store
UpdateGames(c, env) ==
    /\ callers[c].at = "update_one"
    /\ clock < MaxClock
    /\ IF env.mongoOk
       THEN /\ games' = upsert_game(games, callers[c].doc, clock)
            /\ callers' = [callers EXCEPT ![c].at = "session_run"]
       ELSE /\ games' = games
            /\ callers' = [callers EXCEPT ![c] = Idle]
    /\ clock' = clock + 1
    /\ UNCHANGED <<pc, initial, creds, matches, reviews, graph, shadow, todo, last>>

\* session.run(MERGE (g:Game ...)), then the call returns
MergeGame(c, env) ==
    /\ callers[c].at = "session_run"
    /\ graph' = IF env.neoOk THEN merge_game_node(graph, callers[c].doc, clock) ELSE graph
    /\ callers' = [callers EXCEPT ![c] = Idle]
    /\ UNCHANGED <<pc, initial, creds, clock, games, matches, reviews, shadow, todo, last>>

NextConc ==
    \/ \E c \in Callers, g \in BatchGameRecords : BuildGameDoc(c, g)
    \/ \E c \in Callers, e \in Envs : UpdateGames(c, e)
    \/ \E c \in Callers, e \in Envs : MergeGame(c, e)

SpecConc == InitConc /\ [][NextConc]_vars

----------------------------------------------------------------------------
(* map_status called on its own.  The history holds the argument of the call *)
(* and, once it returned, its result.                                         *)

UpperChar(c) ==
    CASE c = "a" -> "A" [] c = "b" -> "B" [] c = "c" -> "C" [] c = "d" -> "D"
      [] c = "e" -> "E" [] c = "f" -> "F" [] c = "g" -> "G" [] c = "h" -> "H"
      [] c = "i" -> "I" [] c = "j" -> "J" [] c = "k" -> "K" [] c = "l" -> "L"
      [] c = "m" -> "M" [] c = "n" -> "N" [] c = "o" -> "O" [] c = "p" -> "P"
      [] c = "q" -> "Q" [] c = "r" -> "R" [] c = "s" -> "S" [] c = "t" -> "T"
      [] c = "u" -> "U" [] c = "v" -> "V" [] c = "w" -> "W" [] c = "x" -> "X"
      [] c = "y" -> "Y" [] c = "z" -> "Z"
      [] OTHER -> c

RECURSIVE Casings(_)
\* every letter-casing of w
Casings(w) ==
    IF w = <<>> THEN {<<>>}
    ELSE {<<c>> \o r : c \in {Head(w), UpperChar(Head(w))}, r \in Casings(Tail(w))}

StatusNames ==
    {Chars_running, Chars_finished, Chars_not_started, Chars_canceled, Chars_postponed}

\* strings that are no provider status: "paused", "", "live", "finished ", "notstarted"
OtherStatuses ==
    {<<"p", "a", "u", "s", "e", "d">>, <<>>, <<"l", "i", "v", "e">>,
     <<"f", "i", "n", "i", "s", "h", "e", "d", " ">>,
     <<"n", "o", "t", "s", "t", "a", "r", "t", "e", "d">>}

StatusInputs == UNION {Casings(w) : w \in StatusNames} \cup Casings(<<"p", "a", "u", "s", "e", "d">>)
                    \cup OtherStatuses

InitStatus ==
    /\ pc = "map_status"
    /\ initial = FALSE
    /\ creds = [igdb_token |-> Val("token"), pandascore_api_key |-> Val("key")]
    /\ clock = 0
    /\ games = Empty
    /\ matches = Empty
    /\ reviews = {}
    /\ graph = NoGraph
    /\ shadow = [games |-> Empty, matches |-> Empty]
    /\ todo = <<>>
    /\ last \in {[task |-> "map_status", arg |-> a, out |-> Null] : a \in StatusInputs}
    /\ callers = Empty

\* self.map_status(status) returns
CallMapStatus ==
    /\ pc = "map_status"
    /\ last.out = Null
    /\ last' = [last EXCEPT !.out = Val(map_status(last.arg))]
    /\ UNCHANGED <<pc, initial, creds, clock, games, matches, reviews, graph, shadow,
                   todo, callers>>

NextStatus == CallMapStatus

SpecStatus == InitStatus /\ [][NextStatus]_vars

----------------------------------------------------------------------------
(* analyze_sentiment called on its own.  The history holds the text and,     *)
(* once the call returned, the score.                                        *)

RECURSIVE JoinWords(_)
\* ' '.join(words)
JoinWords(words) ==
    IF words = <<>> THEN <<>>
    ELSE IF Len(words) = 1 THEN Head(words)
    ELSE Head(words) \o <<" ">> \o JoinWords(Tail(words))

Upper(s) == SubSeq([i \in 1..Len(s) |-> UpperChar(s[i])], 1, Len(s))

\* a review that uses the first p positive and the first n negative keywords
KeywordText(p, n) == JoinWords(SubSeq(positive, 1, p) \o SubSeq(negative, 1, n))

\* such reviews as they are, in capitals, and said twice; "badge"
SentimentTexts ==
    UNION {{KeywordText(p, n), Upper(KeywordText(p, n)),
            KeywordText(p, n) \o <<" ">> \o KeywordText(p, n)} :
              p \in 0..Len(positive), n \in 0..Len(negative)}
    \cup {<<"b", "a", "d", "g", "e">>}

InitSentiment ==
    /\ pc = "analyze_sentiment"
    /\ initial = FALSE
    /\ creds = [igdb_token |-> Val("token"), pandascore_api_key |-> Val("key")]
    /\ clock = 0
    /\ games = Empty
    /\ matches = Empty
    /\ reviews = {}
    /\ graph = NoGraph
    /\ shadow = [games |-> Empty, matches |-> Empty]
    /\ todo = <<>>
    /\ last \in {[task |-> "analyze_sentiment", arg |-> t, out |-> Null] : t \in SentimentTexts}
    /\ callers = Empty

\* self.analyze_sentiment(text) returns
CallAnalyzeSentiment ==
    /\ pc = "analyze_sentiment"
    /\ last.out = Null
    /\ last' = [last EXCEPT !.out = Val(analyze_sentiment(last.arg))]
    /\ UNCHANGED <<pc, initial, creds, clock, games, matches, reviews, graph, shadow,
                   todo, callers>>

NextSentiment == CallAnalyzeSentiment

SpecSentiment == InitSentiment /\ [][NextSentiment]_vars

----------------------------------------------------------------------------
(* Properties *)

\* a document without its record timestamps
NonTs(doc) == [k \in DOMAIN doc \ {"createdAt", "updatedAt"} |-> doc[k]]
NonTsColl(coll) == [k \in DOMAIN coll |-> NonTs(coll[k])]
NonTsSet(coll) == {NonTs(d) : d \in coll}

\* C1: a game document's createdAt is set once: whatever save_game calls follow,
\* also from two callers whose steps interleave, an existing game document keeps
\* the createdAt its first insert stamped.
C1_GameCreatedAtSetOnce ==
    [][\A g \in DOMAIN games :
          g \in DOMAIN games' /\ games'[g].createdAt = games[g].createdAt]_vars

\* both callers have upserted the same id, the second one after the first insert
C1_Witness ==
    /\ \A c \in Callers : callers[c].at = "session_run"
    /\ callers["a"].doc._id = callers["b"].doc._id
    /\ games[callers["a"].doc._id].createdAt + 2 = clock

\* C2 (as claimed): a match or review document keeps its createdAt on every later
\* ingestion of its id.
C2_MatchReviewCreatedAtPreserved ==
    [][/\ \A m \in DOMAIN matches :
             m \in DOMAIN matches' /\ matches'[m].createdAt = matches[m].createdAt
       /\ \A r \in reviews : \A q \in reviews' :
             q.reviewId = r.reviewId => q.createdAt = r.createdAt]_vars

\* C3: ingest_games run twice in a row with the same records leaves every
\* collection, apart from createdAt / updatedAt, as the first run left it.
C3_SaveGameIdempotent ==
    [][(last'.task = "ingest_games" /\ last'.repeat /\ clock' > clock)
        => /\ NonTsColl(games') = NonTsColl(games)
           /\ NonTsColl(matches') = NonTsColl(matches)
           /\ NonTsSet(reviews') = NonTsSet(reviews)]_vars

\* the same well-formed record has been saved twice in a row
C3_Witness ==
    /\ last.task = "ingest_games"
    /\ last.repeat
    /\ \E i \in 1..Len(last.batch) :
          /\ IsVal(last.batch[i].id)
          /\ games[Str(Get(last.batch[i].id))].createdAt
                < games[Str(Get(last.batch[i].id))].updatedAt

\* C4: the document store of a run in which graph calls raise equals, apart from
\* timestamps, the document store of the same run with a graph store that never raises.
C4_StoreIndependence ==
    /\ NonTsColl(games) = NonTsColl(shadow.games)
    /\ NonTsColl(matches) = NonTsColl(shadow.matches)

\* a game and a match with a tournament are stored although their graph writes raised
C4_Witness ==
    /\ \E g \in DOMAIN games : g \notin DOMAIN graph.game
    /\ \E m \in DOMAIN matches :
          /\ IsVal(matches[m].tournamentId)
          /\ Get(matches[m].tournamentId) \notin DOMAIN graph.tournament

\* the collection a handler upserts into
Target(task) == IF task = "ingest_games" THEN games ELSE matches

\* C5: after a batch of games or matches went through the save loop, every record
\* of it that has its id is in the document store, stamped during this batch,
\* whatever malformed records the batch holds and wherever they stand.
C5_BatchIsolation ==
    last.task \in {"ingest_games", "fetch_and_save_matches"} =>
        \A i \in 1..Len(last.batch) :
            IsVal(last.batch[i].id) =>
                /\ Str(Get(last.batch[i].id)) \in DOMAIN Target(last.task)
                /\ Target(last.task)[Str(Get(last.batch[i].id))].updatedAt
                      >= clock - Len(last.batch)

\* a batch of matches whose first record has no id and whose second is stored,
\* after a batch of games whose last record has no id
C5_Witness ==
    /\ last.task = "fetch_and_save_matches"
    /\ Len(last.batch) = 2
    /\ ~IsVal(last.batch[1].id)
    /\ IsVal(last.batch[2].id)
    /\ Str(Get(last.batch[2].id)) \in DOMAIN matches
    /\ games # Empty

\* C6 (as claimed): totalReviews of an existing game document never decreases.
C6_TotalReviewsMonotonic ==
    [][\A g \in DOMAIN games :
          g \in DOMAIN games' /\ games'[g].totalReviews >= games[g].totalReviews]_vars

\* C7 (as claimed): a game's reviews ingested twice in a row leave games and
\* reviews, apart from createdAt / updatedAt, as the first ingestion left them.
C7_ReviewIngestionIdempotent ==
    [][(last'.task = "reviews_of_game" /\ last'.repeat /\ clock' > clock)
        => /\ NonTsColl(games') = NonTsColl(games)
           /\ NonTsSet(reviews') = NonTsSet(reviews)]_vars

\* the minimum number of FINISHED matches the synthesizer is to guarantee
MinFinishedMatches == 5

Finished == {m \in DOMAIN matches : matches[m].status = "FINISHED"}

\* C8 (as claimed): once a full ingestion pass is over, the store holds at least
\* MinFinishedMatches FINISHED matches, each won by one of its two teams.
C8_FinishedMatchFloor ==
    pc = "run_pending" =>
        /\ Cardinality(Finished) >= MinFinishedMatches
        /\ \A m \in Finished :
              matches[m].winnerId \in {Val(matches[m].teamAId), Val(matches[m].teamBId)}

\* C9 (as claimed): with the stores connected, no store failure during a task
\* leaves the task: the process never dies of one.
C9_NoErrorIsFatal == pc # "crashed"

\* C10 (as claimed): a missing or rejected credential never aborts start-up, and
\* the source it belongs to writes nothing.
C10_CredentialFailureDegrades ==
    /\ pc # "abort_auth"
    /\ (pc \notin {"new", "abort_store"} /\ creds.igdb_token = Null) => games = Empty
    /\ (pc \notin {"new", "abort_store"} /\ creds.pandascore_api_key = Null) => matches = Empty

\* C11 (as claimed): a stored match with a winner has it among its two teams.
C11_WinnerIsATeam ==
    \A m \in DOMAIN matches :
        matches[m].winnerId # Null =>
            Get(matches[m].winnerId) \in {matches[m].teamAId, matches[m].teamBId}

\* s is w in some letter-casing
IsCasingOf(s, w) ==
    /\ Len(s) = Len(w)
    /\ \A i \in 1..Len(w) : s[i] \in {w[i], UpperChar(w[i])}

\* the fixed table of the status mapping
StatusTable(s) ==
    IF IsCasingOf(s, Chars_running) THEN "LIVE"
    ELSE IF IsCasingOf(s, Chars_finished) THEN "FINISHED"
    ELSE IF IsCasingOf(s, Chars_not_started) THEN "SCHEDULED"
    ELSE IF IsCasingOf(s, Chars_canceled) THEN "CANCELLED"
    ELSE IF IsCasingOf(s, Chars_postponed) THEN "POSTPONED"
    ELSE "SCHEDULED"

\* C12: map_status maps every letter-casing of running, finished, not_started,
\* canceled, postponed to LIVE, FINISHED, SCHEDULED, CANCELLED, POSTPONED, and every
\* other string to SCHEDULED; its result is always one of these five values.
C12_StatusMappingTotal ==
    (last.task = "map_status" /\ last.out # Null) =>
        /\ Get(last.out) = StatusTable(last.arg)
        /\ Get(last.out) \in {"LIVE", "FINISHED", "SCHEDULED", "CANCELLED", "POSTPONED"}

\* "CaNcElEd" has been mapped to CANCELLED
C12_Witness ==
    /\ last.task = "map_status"
    /\ last.arg = <<"C", "a", "N", "c", "E", "l", "E", "d">>
    /\ last.out = Val("CANCELLED")

\* the records the last _fetch_and_save_matches handed to save_match while the
\* document store answered
MatchesSeen ==
    IF last.task = "fetch_and_save_matches" /\ last.env.mongoOk THEN Saved(last.resp) ELSE <<>>

\* the i-th of these records is in db.matches, written by this very call
StoredNow(i) ==
    LET rec == MatchesSeen[i] IN
    /\ Str(Get(rec.id)) \in DOMAIN matches
    /\ matches[Str(Get(rec.id))].updatedAt = clock - Len(MatchesSeen) + i - 1

\* a status that is no letter-casing of a provider status: missing, null, no string, unknown
Unmapped(st) == IsVal(st) => \A w \in StatusNames : ~IsCasingOf(Get(st), w)

\* C13 (as claimed): a match whose status is missing, null or otherwise malformed
\* is upserted all the same, with status SCHEDULED.
C13_StatusFailOpen ==
    \A i \in 1..Len(MatchesSeen) :
        (IsVal(MatchesSeen[i].id) /\ Unmapped(MatchesSeen[i].status)) =>
            /\ StoredNow(i)
            /\ matches[Str(Get(MatchesSeen[i].id))].status = "SCHEDULED"

\* C14: a match whose scheduled_at or begin_at is "", None, no ISO text or no
\* string (its id and status being in order) is upserted, with the instant null.
C14_TimestampTolerance ==
    \A i \in 1..Len(MatchesSeen) :
        LET rec == MatchesSeen[i] IN
        (IsVal(rec.id) /\ IsVal(StatusArg(rec))) =>
            /\ StoredNow(i)
            /\ rec.scheduled_at \in MalformedInstants
                  => matches[Str(Get(rec.id))].scheduledAt = Null
            /\ rec.begin_at \in MalformedInstants
                  => matches[Str(Get(rec.id))].startedAt = Null

\* a match scheduled on "2024-01-15" and begun at "not-a-date" is stored with
\* the first instant parsed and the second null
C14_Witness ==
    /\ Len(MatchesSeen) = 1
    /\ MatchesSeen[1].scheduled_at = IsoDate
    /\ MatchesSeen[1].begin_at = Val(<<"n", "o", "t", "-", "a", "-", "d", "a", "t", "e">>)
    /\ StoredNow(1)
    /\ matches["1"].scheduledAt = IsoDate
    /\ matches["1"].startedAt = Null

\* C15 (as claimed): of a game's fetched reviews, every one that has its creation
\* timestamp is upserted, wherever a review without one stands in the batch.
C15_ReviewIsolation ==
    last.task = "reviews_of_game" =>
        \A i \in 1..Len(last.batch) :
            IsVal(last.batch[i].timestamp_created) =>
                \E d \in reviews :
                    /\ d.reviewId = Str(Get(last.batch[i].recommendationid))
                    /\ d.gameId = last.game

\* the games of the last response handed to save_game while the document store answered
GamesSeen ==
    IF last.task = "ingest_games" /\ last.env.mongoOk THEN Saved(last.resp) ELSE <<>>

\* C16 (as claimed): a game whose rating is present and in 0..100, 0 included, is
\* stored with avgScore = rating / 10 (rating tenths), which lies in [0, 10];
\* avgScore is null only when the rating is absent.
C16_AvgScoreIsRatingOverTen ==
    \A i \in 1..Len(GamesSeen) :
        LET rec == GamesSeen[i]
            doc == games[Str(Get(rec.id))]
        IN  /\ (IsVal(rec.rating) /\ Get(rec.rating) \in 0..100) =>
                  /\ doc.avgScore = Val([tenths |-> Get(rec.rating)])
                  /\ Get(doc.avgScore).tenths \in 0..100
            /\ doc.avgScore = Null => ~IsVal(rec.rating)

\* C17 (as claimed): when the document-store upsert of a game or match raises,
\* the graph projection of that record is made all the same.
C17_SiblingStoreStillWritten ==
    (last.task # "none" /\ ~last.env.mongoOk /\ last.env.neoOk) =>
        \A i \in 1..Len(Saved(last.resp)) :
            LET rec == Saved(last.resp)[i] IN
            IF last.task = "ingest_games"
            THEN IsVal(rec.id) => Str(Get(rec.id)) \in DOMAIN graph.game
            ELSE (IsVal(rec.id) /\ IsVal(rec.tournament) /\ IsVal(rec.videogame))
                    => Str(Get(rec.tournament).id) \in DOMAIN graph.tournament

\* the matches handed to save_match by the step being taken
MatchesOfStep ==
    IF last'.task = "fetch_and_save_matches" THEN Saved(last'.resp) ELSE <<>>

\* team t and tournament u are identified in one of these matches (u may be left open)
InOneMatch(t, u, open) ==
    \E i \in 1..Len(MatchesOfStep) :
        LET rec == MatchesOfStep[i] IN
        /\ IsVal(rec.tournament)
        /\ open \/ u = Str(Get(rec.tournament).id)
        /\ \E j \in 1..Len(Opponents(rec)) :
              /\ IsVal(Opponents(rec)[j].id)
              /\ t = Str(Get(Opponents(rec)[j].id))

\* C19: every COMPETES_IN edge joins an existing Team node to an existing
\* Tournament node; an edge or a Team node appears only for a team and a tournament
\* identified in one match record of the step, so never for an opponent without id
\* and never from a record without tournament.
C19_CompetesInEdges ==
    [][/\ \A e \in graph'.edges :
             e[1] \in DOMAIN graph'.team /\ e[2] \in DOMAIN graph'.tournament
       /\ \A e \in graph'.edges \ graph.edges : InOneMatch(e[1], e[2], FALSE)
       /\ \A t \in DOMAIN graph'.team \ DOMAIN graph.team : InOneMatch(t, "", TRUE)]_vars

\* a match between team 2 and an opponent without id has been projected: one
\* Team node, one edge
C19_Witness ==
    /\ last.task = "fetch_and_save_matches"
    /\ Len(Saved(last.resp)) = 1
    /\ Opponents(Saved(last.resp)[1]) = <<TeamB, NoTeam>>
    /\ DOMAIN graph.team = {"2"}
    /\ graph.edges = {<<"2", "1">>}

\* the node ids and the edges of the graph store
GraphShape(g) ==
    [game |-> DOMAIN g.game, tournament |-> DOMAIN g.tournament, team |-> DOMAIN g.team,
     edges |-> g.edges]

\* C20: a game or match record applied again, right after it was applied with the
\* same stores answering, leaves the node ids and the COMPETES_IN edges of the
\* graph store as they were.
C20_GraphProjectionIdempotent ==
    [][(last'.task # "none" /\ last'.repeat) => GraphShape(graph') = GraphShape(graph)]_vars

\* a match of two teams has been projected twice in a row
C20_Witness ==
    /\ last.task = "fetch_and_save_matches"
    /\ last.repeat
    /\ last.env.mongoOk /\ last.env.neoOk
    /\ Len(Saved(last.resp)) = 1
    /\ Cardinality(graph.edges) = 2

\* the endpoints asked by the invocation, in order
Asked_Endpoints == [i \in 1..Len(last.requests) |-> last.requests[i].endpoint]

\* C18: a fetch that fails (transport error or non-2xx) writes nothing to either
\* store; an invocation asks each of its endpoints once, in order, whether or not
\* an earlier request failed, and a request that succeeds is saved.
C18_FetchFailureIsLocal ==
    [][last'.task # "none" =>
        /\ IsFailure(last'.resp) => Stores' = Stores
        /\ last'.task = "ingest_games" => Asked_Endpoints' = <<"/v4/games">>
        /\ last'.task = "fetch_and_save_matches" =>
              /\ Asked_Endpoints' = SubSeq(Endpoints, 1, Len(last'.requests))
              /\ pc' \notin {Endpoints[2], Endpoints[3]} => Asked_Endpoints' = Endpoints
              /\ \A i \in 1..Len(Saved(last'.resp)) :
                    Str(Get(Saved(last'.resp)[i].id)) \in DOMAIN matches']_vars

\* /matches/running was rejected, /matches/upcoming raised, /matches/past
\* answered with a match that is now stored
C18_Witness ==
    /\ last.task = "fetch_and_save_matches"
    /\ Len(last.requests) = 3
    /\ last.requests[1].failed /\ last.requests[2].failed /\ ~last.requests[3].failed
    /\ Len(Saved(last.resp)) = 1
    /\ matches # Empty
    /\ \A m \in DOMAIN matches : matches[m].createdAt = clock - 1

\* w occurs in text in some letter-casing
ContainsAnyCase(w, text) ==
    \E i \in 0..(Len(text) - Len(w)) :
        \A j \in 1..Len(w) : text[i + j] \in {w[j], UpperChar(w[j])}

\* the number of distinct keywords of words that occur in text
Matched(words, text) ==
    Cardinality({i \in 1..Len(words) : ContainsAnyCase(words[i], text)})

RECURSIVE ExactTimes(_, _)
\* k times the magnitude a, exactly
ExactTimes(a, k) == IF k = 0 THEN BitsZero ELSE BitsAdd(a, ExactTimes(a, k - 1))

\* the float product x * k of a float and an int
FloatTimes(x, k) ==
    IF k = 0 THEN Float_0
    ELSE Float(x.neg # (k < 0), RoundBits(ExactTimes(x.mag, IF k < 0 THEN -k ELSE k)))

\* clamp(x, -1, 1)
Clamp(x) == FloatMax(FloatMin(x, Float_1_0), Float_minus_1_0)

\* C21 (as claimed): the score of a text is clamp(0.2 * (P - N), -1, 1), where P
\* and N count the distinct positive and negative keywords that occur in the text
\* in any letter-casing; it lies in [-1, 1].
C21_SentimentIsClampedCount ==
    (last.task = "analyze_sentiment" /\ last.out # Null) =>
        /\ Get(last.out) = Clamp(FloatTimes(Float_0_2,
                                Matched(positive, last.arg) - Matched(negative, last.arg)))
        /\ ~FloatLess(Float_1_0, Get(last.out))
        /\ ~FloatLess(Get(last.out), Float_minus_1_0)

\* C22: in every reachable state of the document store, the gameId of each stored
\* review is the _id of a stored game, and no two review documents have the same
\* reviewId.
C22_ReviewsReferToGames ==
    /\ \A d \in reviews : d.gameId \in DOMAIN games
    /\ \A d, e \in reviews : d.reviewId = e.reviewId => d = e

\* a game has been credited with more reviews than it has documents: a review was
\* written again under a reviewId already stored
C22_Witness ==
    \E d \in reviews :
        /\ d.gameId \in DOMAIN games
        /\ games[d.gameId].totalReviews > Cardinality({e \in reviews : e.gameId = d.gameId})

====
